---- MODULE Spec2Model ----
(***************************************************************************)
(* The change-event aggregation and pagination slice of the Table          *)
(* component (components/table/Table.tsx).                                 *)
(*                                                                         *)
(* State: the props (dataSource, pagination), the sorter / filter /        *)
(* pagination state owned by the hooks, the mutable changeEventInfo        *)
(* snapshot refreshed by the watchEffect, and the calls the last handled   *)
(* step made on the outside (resetPagination, pagination.onChange,         *)
(* onChange).                                                              *)
(***************************************************************************)
EXTENDS Integers, Sequences, FiniteSets, TLC

VARIABLES
    rawData,          \* props.dataSource
    pagination,       \* props.pagination: [enabled, total, hasOnChange]
    sortStates,       \* useSorter state: direction of the sorted column
    filterStates,     \* useFilter state: selected values of the filtered column
    innerPagination,  \* usePagination state: [current, pageSize]
    changeEventInfo,  \* the "latest known" snapshot
    emitted,          \* calls made by the last handled step, in order
    pending           \* events handled since the watchEffect last ran

vars == <<rawData, pagination, sortStates, filterStates, innerPagination,
          changeEventInfo, emitted, pending>>

\* ------------------------------------------------------------- bounds
MaxLen == 3
MaxCurrent == 2
MaxPageSize == 2
MaxPending == 2

\* ------------------------------------------------------------ records
Age(i) == CASE i = 1 -> 30 [] i = 2 -> 20 [] i = 3 -> 25 [] OTHER -> 20

Rec(i) == [id |-> i, age |-> Age(i)]

DataSets == { [i \in 1..n |-> Rec(i)] : n \in 0..MaxLen }

Directions == {"none", "ascend", "descend"}

FilterValues == {{}, {20}, {20, 25}}

Totals == {0, 100}

Currents == (-1)..MaxCurrent

PageSizes == 0..MaxPageSize

Min(a, b) == IF a < b THEN a ELSE b

Max(a, b) == IF a > b THEN a ELSE b

\* Array.prototype.slice(start, end): negative indices count from the end.
Slice(s, start, end) ==
    LET len == Len(s)
        from == IF start < 0 THEN Max(len + start, 0) ELSE Min(start, len)
        to == IF end < 0 THEN Max(len + end, 0) ELSE Min(end, len)
    IN  IF from >= to THEN <<>> ELSE SubSeq(s, from + 1, to)

\* ------------------------------------------------------- sort engine
\* comparator of one sort state: ascend a - b, descend the reverse
Compare(a, b, dir) ==
    IF dir = "ascend" THEN a.age - b.age
    ELSE IF dir = "descend" THEN b.age - a.age
    ELSE 0

RECURSIVE InsertSorted(_, _, _)
InsertSorted(x, sorted, dir) ==
    IF sorted = <<>> THEN <<x>>
    ELSE LET last == sorted[Len(sorted)]
         IN  IF Compare(last, x, dir) <= 0 THEN Append(sorted, x)
             ELSE Append(InsertSorted(x, SubSeq(sorted, 1, Len(sorted) - 1), dir), last)

RECURSIVE StableSort(_, _, _)
StableSort(data, n, dir) ==
    IF n = 0 THEN <<>>
    ELSE InsertSorted(data[n], StableSort(data, n - 1, dir), dir)

getSortData(data, sorterStates) ==
    IF sorterStates = "none" THEN data
    ELSE StableSort(data, Len(data), sorterStates)

\* ----------------------------------------------------- filter engine
Matches(record, selected) == selected = {} \/ record.age \in selected

getFilterData(data, selected) ==
    LET keep(record) == Matches(record, selected)
    IN  SelectSeq(data, keep)

\* the SorterResult / filters record handed to onChange
generateSorterInfo(sorterStates) == [order |-> sorterStates, field |-> "age"]

generateFilterInfo(selected) == [age |-> selected]

\* ------------------------------------------------- derived pipeline
sortedData == getSortData(rawData, sortStates)

mergedData == getFilterData(sortedData, filterStates)

\* the effective pagination: current and pageSize as held by usePagination,
\* total the configured override or else the filtered+sorted length
mergedCurrent == innerPagination.current

mergedPageSize == innerPagination.pageSize

mergedTotal == IF pagination.total > 0 THEN pagination.total ELSE Len(mergedData)

mergedPagination ==
    [current |-> mergedCurrent, pageSize |-> mergedPageSize, total |-> mergedTotal]

getPaginationParam ==
    [present |-> TRUE, current |-> mergedCurrent, pageSize |-> mergedPageSize]

NoPagination == [present |-> FALSE, current |-> 0, pageSize |-> 0]

\* the body of the watchEffect: what a refreshed snapshot holds
FreshEventInfo ==
    [sorter |-> generateSorterInfo(sortStates),
     sorterStates |-> sortStates,
     filters |-> generateFilterInfo(filterStates),
     filterStates |-> filterStates,
     pagination |-> IF pagination.enabled THEN getPaginationParam ELSE NoPagination]

Init ==
    /\ rawData \in DataSets
    /\ pagination \in [enabled : BOOLEAN, total : Totals, hasOnChange : BOOLEAN]
    /\ sortStates = "none"
    /\ filterStates = {}
    /\ innerPagination \in [current : Currents, pageSize : PageSizes]
    /\ changeEventInfo = FreshEventInfo
    /\ emitted = <<>>
    /\ pending = 0

\* ------------------------------------------------------ visible page
\* variants of the slice, each with one slip, used to show that the page
\* properties below are decided by pageDataOf
pageDataOffByOne(enabled, mp, data) ==
    IF ~enabled \/ mp.pageSize = 0 THEN data
    ELSE IF Len(data) < mp.total /\ Len(data) <= mp.pageSize THEN data
    ELSE Slice(data, mp.current * mp.pageSize, (mp.current + 1) * mp.pageSize)

pageDataShortEnd(enabled, mp, data) ==
    IF ~enabled \/ mp.pageSize = 0 THEN data
    ELSE IF Len(data) < mp.total /\ Len(data) <= mp.pageSize THEN data
    ELSE Slice(data, (mp.current - 1) * mp.pageSize, mp.current * mp.pageSize - 1)

pageDataAlwaysSlice(enabled, mp, data) ==
    IF ~enabled \/ mp.pageSize = 0 THEN data
    ELSE Slice(data, (mp.current - 1) * mp.pageSize, mp.current * mp.pageSize)

pageDataDynamicWhole(enabled, mp, data) ==
    IF ~enabled \/ mp.pageSize = 0 THEN data
    ELSE IF Len(data) < mp.total THEN data
    ELSE Slice(data, (mp.current - 1) * mp.pageSize, mp.current * mp.pageSize)

\* the pageData computed: the slice handed to the grid
pageDataOf(enabled, mp, data) ==
    IF ~enabled \/ mp.pageSize = 0 THEN data
    ELSE IF Len(data) < mp.total
         THEN IF Len(data) > mp.pageSize
              THEN Slice(data, (mp.current - 1) * mp.pageSize, mp.current * mp.pageSize)
              ELSE data
         ELSE Slice(data, (mp.current - 1) * mp.pageSize, mp.current * mp.pageSize)

CurrentWarning == "current should be positive number"

LengthWarning == "dataSource length is less than pagination.total but large than pagination.pageSize"

\* the devWarning calls the pageData computed makes
pageDataWarnings(enabled, mp, data) ==
    IF ~enabled \/ mp.pageSize = 0 THEN {}
    ELSE (IF mp.current > 0 THEN {} ELSE {CurrentWarning})
         \cup (IF Len(data) < mp.total /\ Len(data) > mp.pageSize
               THEN {LengthWarning}
               ELSE {})

pageData == pageDataOf(pagination.enabled, mergedPagination, mergedData)

warnings == pageDataWarnings(pagination.enabled, mergedPagination, mergedData)

\* --------------------------------------------------- change events
\* { ...changeEventInfo, ...info }
MergeInfo(snapshot, info) ==
    [k \in DOMAIN snapshot |-> IF k \in DOMAIN info THEN info[k] ELSE snapshot[k]]

\* "Reset event param": if (changeInfo.pagination.current) current = 1
ResetEventParam(pag) ==
    IF pag.present /\ pag.current # 0 THEN [pag EXCEPT !.current = 1] ELSE pag

\* the shared pagination reset operation returned by usePagination
resetPagination(inner) == [inner EXCEPT !.current = 1]

\* variant: the data recomputed from the snapshot instead of the merged record
currentDataSourceFromSnapshot(changeInfo) ==
    getFilterData(getSortData(rawData, changeEventInfo.sorterStates),
                  changeEventInfo.filterStates)

\* the currentDataSource argument of onChange
currentDataSource(changeInfo) ==
    getFilterData(getSortData(rawData, changeInfo.sorterStates), changeInfo.filterStates)

ResetCall == [fn |-> "resetPagination"]

PaginationOnChangeCall(current, pageSize) ==
    [fn |-> "pagination.onChange", current |-> current, pageSize |-> pageSize]

OnChangeCall(changeInfo, action) ==
    [fn |-> "onChange",
     pagination |-> changeInfo.pagination,
     filters |-> changeInfo.filters,
     sorter |-> changeInfo.sorter,
     currentDataSource |-> currentDataSource(changeInfo),
     action |-> action]

\* triggerOnChange(info, action, reset); inner is the pagination state the
\* calling hook has left behind
triggerOnChange(info, action, reset, inner) ==
    LET merged == MergeInfo(changeEventInfo, info)
        changeInfo == IF reset
                      THEN [merged EXCEPT !.pagination = ResetEventParam(@)]
                      ELSE merged
    IN  /\ innerPagination' = IF reset THEN resetPagination(inner) ELSE inner
        \* changeInfo.pagination is the snapshot's own object unless info
        \* brought one: the reset of the event param writes through
        /\ changeEventInfo' =
              IF reset /\ "pagination" \notin DOMAIN info
              THEN [changeEventInfo EXCEPT !.pagination = ResetEventParam(@)]
              ELSE changeEventInfo
        /\ emitted' =
              (IF reset THEN <<ResetCall>> ELSE <<>>)
              \o (IF reset /\ pagination.enabled /\ pagination.hasOnChange
                  THEN <<PaginationOnChangeCall(1, changeInfo.pagination.pageSize)>>
                  ELSE <<>>)
              \o <<OnChangeCall(changeInfo, action)>>

onSorterChange(sorter, sorterStates) ==
    triggerOnChange([sorter |-> sorter, sorterStates |-> sorterStates],
                    "sort", FALSE, innerPagination)

\* variant: a filter change reported without the reset flag
onFilterChangeNoReset(filters, selected) ==
    triggerOnChange([filters |-> filters, filterStates |-> selected],
                    "filter", FALSE, innerPagination)

onFilterChange(filters, selected) ==
    triggerOnChange([filters |-> filters, filterStates |-> selected],
                    "filter", TRUE, innerPagination)

onPaginationChange(current, pageSize) ==
    triggerOnChange([pagination |-> [present |-> TRUE, current |-> current,
                                     pageSize |-> pageSize]],
                    "paginate", FALSE, [current |-> current, pageSize |-> pageSize])

\* a column header is clicked: useSorter stores the new state and reports it
SorterChange ==
    /\ pending < MaxPending
    /\ pending' = pending + 1
    /\ \E dir \in Directions \ {sortStates} :
        /\ sortStates' = dir
        /\ onSorterChange(generateSorterInfo(dir), dir)
        /\ UNCHANGED <<rawData, pagination, filterStates>>

\* a filter menu is confirmed: useFilter stores the new state and reports it
FilterChange ==
    /\ pending < MaxPending
    /\ pending' = pending + 1
    /\ \E selected \in FilterValues \ {filterStates} :
        /\ filterStates' = selected
        /\ onFilterChange(generateFilterInfo(selected), selected)
        /\ UNCHANGED <<rawData, pagination, sortStates>>

\* the pagination widget (rendered when pagination is on and total is truthy)
\* reports (current, pageSize): usePagination stores it and reports it
PaginationChange ==
    /\ pagination.enabled
    /\ mergedTotal > 0
    /\ pending < MaxPending
    /\ pending' = pending + 1
    /\ \E current \in 1..MaxCurrent, pageSize \in 1..MaxPageSize :
          onPaginationChange(current, pageSize)
    /\ UNCHANGED <<rawData, pagination, sortStates, filterStates>>

\* the watchEffect re-runs after one of its dependencies has changed
WatchEffect ==
    /\ pending > 0
    /\ changeEventInfo' = FreshEventInfo
    /\ emitted' = <<>>
    /\ pending' = 0
    /\ UNCHANGED <<rawData, pagination, sortStates, filterStates, innerPagination>>

Next == SorterChange \/ FilterChange \/ PaginationChange \/ WatchEffect

Spec == Init /\ [][Next]_vars

\* ================================================================ claims
Notified == emitted # <<>>

\* the onChange call of the last handled event (always the last call made)
Notification == emitted[Len(emitted)]

ResetInvoked(calls) == \E i \in 1..Len(calls) : calls[i].fn = "resetPagination"

\* the elements of data at the 0-based positions lo <= i < hi
IndexRun(data, lo, hi) ==
    LET a == Max(lo, 0)
        b == Min(hi, Len(data))
    IN  IF a >= b THEN <<>> ELSE SubSeq(data, a + 1, b)

Paging == pagination.enabled /\ mergedPageSize # 0

\* C1: with pagination enabled, every filter-change event invokes the
\* pagination reset and leaves pagination.current equal to 1; a sort-change
\* event never invokes the reset and leaves pagination.current as it was.
C1_FilterResetsSortKeeps ==
    [][ (pagination.enabled /\ emitted' # <<>>) =>
          /\ emitted'[Len(emitted')].action = "filter" =>
                /\ ResetInvoked(emitted')
                /\ mergedCurrent' = 1
          /\ emitted'[Len(emitted')].action = "sort" =>
                /\ ~ResetInvoked(emitted')
                /\ mergedCurrent' = mergedCurrent
      ]_vars

\* a filter event handled in the same tick as an earlier event, with the
\* reset invoked and current back at 1
C1_Witness ==
    /\ pagination.enabled
    /\ Notified
    /\ Notification.action = "filter"
    /\ pending = 2
    /\ ResetInvoked(emitted)
    /\ mergedCurrent = 1
    /\ mergedData # <<>>

\* C2: in triggerOnChange with reset = true the calls are made in the order
\* resetPagination, pagination.onChange(1, pageSize) when configured, then
\* onChange; and the pagination argument of that onChange never carries a
\* current other than 1.
C2_ResetOrderAndParam ==
    (Notified /\ ResetInvoked(emitted)) =>
        /\ emitted[1].fn = "resetPagination"
        /\ Notification.fn = "onChange"
        /\ IF pagination.enabled /\ pagination.hasOnChange
           THEN /\ Len(emitted) = 3
                /\ emitted[2] = PaginationOnChangeCall(1, Notification.pagination.pageSize)
           ELSE Len(emitted) = 2
        /\ Notification.pagination.present => Notification.pagination.current = 1

\* C3: in every onChange notification currentDataSource is the filter of the
\* sort of the full raw dataset under the sorter and filter states of that
\* notification's merged change record, never cut down to the page.
C3_CurrentDataSource ==
    Notified =>
        Notification.currentDataSource =
            getFilterData(getSortData(rawData, Notification.sorter.order),
                          Notification.filters.age)

\* a sort event over an already filtered table whose page is shorter than
\* the notified data
C3_Witness ==
    /\ Notified
    /\ Notification.action = "sort"
    /\ Notification.sorter.order = "ascend"
    /\ Notification.filters.age = {20, 25}
    /\ Notification.currentDataSource = <<Rec(2), Rec(3)>>
    /\ Len(pageData) < Len(Notification.currentDataSource)

\* C4: in every onChange notification each dimension the triggering event
\* did not change equals the current value of that dimension, also when the
\* event is handled before the watcher has refreshed the snapshot.
C4_NeverPartiallyStale ==
    Notified =>
        /\ Notification.action # "sort" =>
              Notification.sorter = generateSorterInfo(sortStates)
        /\ Notification.action # "filter" =>
              Notification.filters = generateFilterInfo(filterStates)
        /\ Notification.action = "sort" =>
              Notification.pagination = FreshEventInfo.pagination

\* C5 as stated: with pagination enabled, a truthy pageSize and a total not
\* above the length of the filtered+sorted dataset, the visible page is the
\* elements at indices (current-1)*pageSize up to but excluding
\* current*pageSize.
C5_PageIsIndexRange ==
    (Paging /\ mergedTotal <= Len(mergedData)) =>
        pageData = IndexRun(mergedData,
                            (mergedCurrent - 1) * mergedPageSize,
                            mergedCurrent * mergedPageSize)

\* C5 amended: the same for a positive pageSize and a current that is not
\* negative; for pageSize=2, current=2 and length 3 the page is the single
\* record at index 2.
C5_PageIsIndexRangeNonNegative ==
    (Paging /\ mergedPageSize > 0 /\ mergedCurrent >= 0
       /\ mergedTotal <= Len(mergedData)) =>
        /\ pageData = IndexRun(mergedData,
                               (mergedCurrent - 1) * mergedPageSize,
                               mergedCurrent * mergedPageSize)
        /\ (mergedPageSize = 2 /\ mergedCurrent = 2
              /\ Len(mergedData) = 3) => pageData = <<mergedData[3]>>

\* reached by the pagination widget reporting page 2
C5_Witness ==
    /\ Paging
    /\ Notified
    /\ Notification.action = "paginate"
    /\ mergedPageSize = 2
    /\ mergedCurrent = 2
    /\ mergedTotal = 3
    /\ Len(mergedData) = 3
    /\ pageData = <<mergedData[3]>>

\* the page shown for page number c of data, everything else as in the
\* current state
PageAt(c, data) ==
    pageDataOf(pagination.enabled,
               [current |-> c, pageSize |-> mergedPageSize, total |-> Len(data)],
               data)

PageCount(data) == (Len(data) + mergedPageSize - 1) \div mergedPageSize

RECURSIVE SumPageLengths(_, _)
SumPageLengths(n, data) ==
    IF n = 0 THEN 0 ELSE SumPageLengths(n - 1, data) + Len(PageAt(n, data))

RECURSIVE ConcatPages(_, _)
ConcatPages(n, data) ==
    IF n = 0 THEN <<>> ELSE ConcatPages(n - 1, data) \o PageAt(n, data)

\* C6: for a positive pageSize and a total that is not overridden, the
\* lengths of the pages 1 .. ceil(length/pageSize) sum to the length of the
\* filtered+sorted dataset and every record appears on exactly one page.
C6_PagesPartitionData ==
    (pagination.enabled /\ mergedPageSize > 0 /\ pagination.total = 0) =>
        LET data == mergedData
            pages == PageCount(data)
        IN  /\ mergedTotal = Len(data)
            /\ SumPageLengths(pages, data) = Len(data)
            /\ ConcatPages(pages, data) = data
            /\ \A i \in 1..Len(data) :
                  Cardinality({c \in 1..pages :
                      \E j \in 1..Len(PageAt(c, data)) :
                          PageAt(c, data)[j] = data[i]}) = 1

\* three records after a sort event, two per page: pages of 2 and 1
C6_Witness ==
    /\ pagination.enabled
    /\ Notified
    /\ Notification.action = "sort"
    /\ pagination.total = 0
    /\ mergedPageSize = 2
    /\ Len(mergedData) = 3
    /\ PageCount(mergedData) = 2
    /\ Len(PageAt(1, mergedData)) = 2
    /\ Len(PageAt(2, mergedData)) = 1

DynamicWithinOnePage ==
    /\ Paging
    /\ mergedTotal > Len(mergedData)
    /\ Len(mergedData) <= mergedPageSize

\* C7 as stated: when the supplied total exceeds the loaded length and the
\* loaded length does not exceed pageSize, the visible page is the whole
\* loaded dataset whatever current is, and a diagnostic is emitted.
C7_WholeDataAndDiagnostic ==
    DynamicWithinOnePage => (pageData = mergedData /\ warnings # {})

\* C7 amended: in that case the visible page is the whole loaded dataset
\* whatever current is, and a diagnostic is emitted only when current is not
\* positive (none is tied to the total exceeding the loaded length).
C7_WholeDataNoLengthDiagnostic ==
    DynamicWithinOnePage =>
        /\ pageData = mergedData
        /\ LengthWarning \notin warnings
        /\ (warnings # {}) <=> (mergedCurrent <= 0)

\* a filter has left two loaded records, then the widget reports page 2
C7_Witness ==
    /\ DynamicWithinOnePage
    /\ Notified
    /\ Notification.action = "paginate"
    /\ filterStates = {20, 25}
    /\ mergedTotal = 100
    /\ Len(mergedData) = 2
    /\ mergedCurrent = 2
    /\ pageData = mergedData
    /\ warnings = {}

\* C8: a non-positive current with pagination enabled and a non-empty
\* dataset produces a diagnostic and records are still shown (never an
\* empty visible page).
C8_NonPositiveCurrentShowsRecords ==
    (Paging /\ mergedCurrent <= 0 /\ mergedData # <<>>) =>
        /\ CurrentWarning \in warnings
        /\ pageData # <<>>

PastLastPage(current, pageSize, len) ==
    /\ pageSize > 0
    /\ len > 0
    /\ current >= 1
    /\ (current - 1) * pageSize >= len

IsContiguousRun(page, data) ==
    \E offset \in 0..Len(data) :
        /\ offset + Len(page) <= Len(data)
        /\ page = SubSeq(data, offset + 1, offset + Len(page))

\* C10: the visible page is a contiguous, order-preserving run of the
\* filtered+sorted dataset; with pagination enabled and a positive pageSize
\* its length never exceeds pageSize; with pagination false or a falsy
\* pageSize it is the entire filtered+sorted dataset.
C10_PageIsBoundedRun ==
    LET data == mergedData
        page == pageDataOf(pagination.enabled, mergedPagination, data)
    IN  /\ page = pageData
        /\ IsContiguousRun(page, data)
        /\ (pagination.enabled /\ mergedPageSize > 0) => Len(page) <= mergedPageSize
        /\ (~pagination.enabled \/ mergedPageSize = 0) => page = data

\* total above the loaded length, loaded length above one page: sliced, warned
C10_Witness ==
    /\ Paging
    /\ Notified
    /\ Notification.action = "paginate"
    /\ mergedTotal > Len(mergedData)
    /\ Len(mergedData) = 3
    /\ mergedPageSize = 2
    /\ mergedCurrent = 2
    /\ pageData = <<mergedData[3]>>
    /\ LengthWarning \in warnings

====
